---- MODULE Spec2Model ----
(***************************************************************************)
(* Biogas production predictor (src/app.py): the module-level start-up     *)
(* (artifact loading, explainer construction, interface construction) and  *)
(* the two request handlers, predict_biogas and batch_predict.             *)
(*                                                                         *)
(* Numbers are exact: a float is a fraction [n, d] in lowest terms.  The   *)
(* text a handler returns is a record of the values its f-string           *)
(* interpolates; the display precision (.1f, .2f) is not part of it.       *)
(***************************************************************************)
EXTENDS Integers, Sequences, FiniteSets, TLC

(* ------------------------------ bounds --------------------------------- *)

\* Length of the feature list held by feature_names.pkl in Spec.
NumFeatures == 2

\* Largest number of rows of an uploaded table.
MaxRows == 2

\* Length of the feature list held by feature_names.pkl in SpecShap.
NumShapFeatures == 11

\* Number of leading features whose contribution takes every value.
ShapFree == 9

\* Number of concurrent batch requests in SpecConc.
NumThreads == 2

(* --------------------------- program constants -------------------------- *)

\* sorted(...)[:10]
TopK == 10

\* The keys of input_data, in the order the dict literal lists them.
SliderKeys ==
    << "Pig Manure (kg)", "Kitchen Food Waste (kg)", "Chicken Litter (kg)",
       "Cassava (kg)", "Bagasse Feed (kg)", "Energy Grass (kg)",
       "Banana Shafts (kg)", "Alcohol Waste (kg)", "Municipal Residue (kg)",
       "Fish Waste (kg)", "Water (L)", "Diesel (L)", "Electricity Use (kWh)",
       "C/N Ratio", "Digester Temp (C)", "Temperature (C)", "Humidity (%)",
       "Rainfall (mm)" >>

\* The column batch_predict adds.
PredictionColumn == "Predicted_Biogas_m3"

\* The path batch_predict writes.
output_file == [path |-> "biogas_predictions.csv"]

\* The five pickles the start-up reads.
ArtifactNames ==
    { "lightgbm_model.pkl", "feature_names.pkl", "feature_stats.pkl",
      "performance_metrics.pkl", "shap_explainer.pkl" }

\* 6.5, 365, 1000, 79.21 and 100 as fractions.
KWH_PER_M3 == [n |-> 65, d |-> 10]
DAYS_PER_YEAR == [n |-> 365, d |-> 1]
THOUSAND == [n |-> 1000, d |-> 1]
FACILITY_AVERAGE == [n |-> 7921, d |-> 100]
HUNDRED == [n |-> 100, d |-> 1]

\* The cross-mark emoji that opens every error message.
FAIL_PREFIX == "[x]"

(* ------------------------------ values --------------------------------- *)

None == [tag |-> "None"]

\* An exception on its way up the stack.
Raised == [tag |-> "raise"]

Abs(x) == IF x < 0 THEN -x ELSE x
Min(a, b) == IF a <= b THEN a ELSE b
Range(s) == { s[i] : i \in DOMAIN s }

\* Fractions in lowest terms with a positive denominator, and the arithmetic
\* of the source on them.
RECURSIVE GCD(_, _)
GCD(a, b) == IF b = 0 THEN a ELSE GCD(b, a % b)

Frac(n, d) ==
    LET g == GCD(Abs(n), Abs(d))
        sign == IF d < 0 THEN -1 ELSE 1
    IN  IF g = 0 THEN [n |-> n, d |-> d]
        ELSE [n |-> sign * (n \div g), d |-> sign * (d \div g)]
FMul(a, b) == Frac(a.n * b.n, a.d * b.d)
FDiv(a, b) == Frac(a.n * b.d, a.d * b.n)
FSub(a, b) == Frac(a.n * b.d - b.n * a.d, a.d * b.d)

(* ------------------------------ state ---------------------------------- *)

VARIABLES
    artifacts,            \* environment: the pickles that deserialize
    featureFile,          \* environment: the list feature_names.pkl holds
    treeModel,            \* environment: shap.TreeExplainer(model) succeeds
    pc,                   \* position of the module-level code
    model, feature_names, feature_stats, performance_metrics, explainer,
    defaults,             \* where the slider defaults came from
    served,               \* a request has been handled
    req,                  \* the request handled last
    result,               \* what the handler returned
    calls,                \* library calls the handler made
    first,                \* the first predict_biogas call and what it returned
    outfile,              \* content of biogas_predictions.csv
    tpc, tfile, tout, tret, delivered   \* concurrent batch requests

envVars == <<artifacts, featureFile, treeModel>>
regVars == <<model, feature_names, feature_stats, performance_metrics, explainer>>
reqVars == <<served, req, result, calls, first>>
concVars == <<tpc, tfile, tout, tret, delivered>>
vars == <<envVars, pc, regVars, defaults, reqVars, outfile, concVars>>

(* ------------------------------ start-up ------------------------------- *)

\* The four pickles of the first try block, in the order it loads them.
RegistryFiles ==
    << "lightgbm_model.pkl", "feature_names.pkl", "feature_stats.pkl",
       "performance_metrics.pkl" >>

\* joblib.load: the object a pickle deserializes to.
Unpickle(f) ==
    CASE f = "lightgbm_model.pkl" -> [tag |-> "LGBMRegressor"]
      [] f = "feature_names.pkl" -> [tag |-> "list", items |-> featureFile]
      [] f = "feature_stats.pkl" -> [tag |-> "stats", keys |-> Range(SliderKeys)]
      [] f = "performance_metrics.pkl" -> [tag |-> "metrics"]
      [] f = "shap_explainer.pkl" -> [tag |-> "persisted"]

\* Mutant: each pickle is loaded on its own, a failing one alone is None.
LoadedRegistryPerFile ==
    [i \in DOMAIN RegistryFiles |->
       IF RegistryFiles[i] \in artifacts THEN Unpickle(RegistryFiles[i]) ELSE None]

\* The first try block: the four loads in order; the except branch resets
\* all four names to None.
LoadedRegistry ==
    IF \A i \in DOMAIN RegistryFiles : RegistryFiles[i] \in artifacts
    THEN [i \in DOMAIN RegistryFiles |-> Unpickle(RegistryFiles[i])]
    ELSE [i \in DOMAIN RegistryFiles |-> None]

LoadRegistry ==
    /\ pc = "load"
    /\ model' = LoadedRegistry[1]
    /\ feature_names' = LoadedRegistry[2]
    /\ feature_stats' = LoadedRegistry[3]
    /\ performance_metrics' = LoadedRegistry[4]
    /\ pc' = "explainer"
    /\ UNCHANGED <<envVars, explainer, defaults, reqVars, outfile, concVars>>

\* The second try block.  "raise" is shap.TreeExplainer(model) failing inside
\* the bare except branch, where nothing catches it.
LoadedExplainer ==
    IF "shap_explainer.pkl" \in artifacts THEN Unpickle("shap_explainer.pkl")
    ELSE IF model # None
         THEN (IF treeModel THEN [tag |-> "TreeExplainer"] ELSE [tag |-> "raise"])
         ELSE None

LoadExplainer ==
    /\ pc = "explainer"
    /\ IF LoadedExplainer = [tag |-> "raise"]
       THEN pc' = "crashed" /\ UNCHANGED explainer
       ELSE pc' = "interface" /\ explainer' = LoadedExplainer
    /\ UNCHANGED <<envVars, model, feature_names, feature_stats,
                   performance_metrics, defaults, reqVars, outfile, concVars>>

\* defaults, mins and maxs: the loaded statistics, or the literal fallbacks.
SelectedDefaults ==
    IF feature_stats # None
    THEN [source |-> "feature_stats", keys |-> feature_stats.keys]
    ELSE [source |-> "fallback", keys |-> Range(SliderKeys)]

\* template_data: iterates feature_names and indexes defaults; a None
\* feature_names is not iterable and a missing key is a KeyError.
TemplateBuilds ==
    /\ feature_names # None
    /\ Range(feature_names.items) \subseteq SelectedDefaults.keys

\* The interface construction, from the defaults to the end of the Blocks.
BuildInterface ==
    /\ pc = "interface"
    /\ defaults' = SelectedDefaults
    /\ pc' = IF TemplateBuilds THEN "serving" ELSE "crashed"
    /\ UNCHANGED <<envVars, regVars, reqVars, outfile, concVars>>

\* The handlers exist once their def statements have run: they can be called
\* by name before the interface is built and through it once it serves.
Callable == pc \in {"interface", "serving"}

(* --------------------------- predict_biogas ---------------------------- *)

NoCalls == [read |-> 0, predict |-> 0, explain |-> 0, write |-> 0]

\* An error message: the prefix, then the text.
ErrorText(msg) == [prefix |-> FAIL_PREFIX, msg |-> msg]

\* input_df[feature_names] and row[feature_names]: the values of a mapping,
\* in the order of the feature list.
SelectFeatures(mapping) ==
    [k \in DOMAIN feature_names.items |-> mapping[feature_names.items[k]]]

\* model.predict on one row.  The regressor is opaque: it is a fixed function
\* of the positional vector, sensitive to the position of every value, that
\* takes negative, zero and positive values.
RECURSIVE WeightedSum(_, _)
WeightedSum(vec, k) == IF k = 0 THEN 0 ELSE k * vec[k] + WeightedSum(vec, k - 1)

ModelPredict(vec) == WeightedSum(vec, Len(vec)) - 1

\* Mutant: the annual production divided by a hundred.
AnnualProductionPerHundred(prediction) ==
    FDiv(FMul(prediction, DAYS_PER_YEAR), HUNDRED)

\* The three derived metrics and the percentage of the result text.
DailyEnergy(prediction) == FMul(prediction, KWH_PER_M3)
AnnualProduction(prediction) == FDiv(FMul(prediction, DAYS_PER_YEAR), THOUSAND)
VsAverage(prediction) == FSub(prediction, FACILITY_AVERAGE)
VsAveragePct(prediction) ==
    FMul(FDiv(VsAverage(prediction), FACILITY_AVERAGE), HUNDRED)

\* result_text of a successful prediction.
ResultText(prediction) ==
    [ prefix |-> "",
      msg |-> "PREDICTION RESULTS",
      prediction |-> prediction,
      daily_energy |-> DailyEnergy(prediction),
      annual_production |-> AnnualProduction(prediction),
      vs_average |-> VsAverage(prediction),
      vs_average_pct |-> VsAveragePct(prediction) ]

\* zip(feature_names, values): pairs up to the shorter of the two.
Zip(names, values) ==
    [k \in 1..Min(Len(names), Len(values)) |-> <<names[k], values[k]>>]

\* shap_dict.items(): the row of contributions is shap_values itself when it
\* has one dimension and shap_values[0] otherwise.
ShapItems(shap_values) ==
    Zip(feature_names.items,
        IF shap_values.ndim = 1 THEN shap_values.data ELSE shap_values.data[1])

\* Mutant: the item goes ahead of the items with its absolute value.
InsertByAbsAhead(item, sorted) ==
    LET ahead == { k \in DOMAIN sorted : Abs(sorted[k][2]) > Abs(item[2]) }
        n == Cardinality(ahead)
    IN  SubSeq(sorted, 1, n) \o <<item>> \o SubSeq(sorted, n + 1, Len(sorted))

\* One step of sorted(key=abs, reverse=True): the item goes behind every item
\* whose absolute value is at least its own, so equal keys keep their order.
InsertByAbs(item, sorted) ==
    LET ahead == { k \in DOMAIN sorted : Abs(sorted[k][2]) >= Abs(item[2]) }
        n == Cardinality(ahead)
    IN  SubSeq(sorted, 1, n) \o <<item>> \o SubSeq(sorted, n + 1, Len(sorted))

RECURSIVE SortByAbs(_)
SortByAbs(items) ==
    IF items = <<>> THEN <<>>
    ELSE InsertByAbs(items[Len(items)], SortByAbs(SubSeq(items, 1, Len(items) - 1)))

\* sorted(...)[:10]
SortedShap(shap_values) ==
    LET all == SortByAbs(ShapItems(shap_values))
    IN  SubSeq(all, 1, Min(TopK, Len(all)))

\* The waterfall chart and the importance bar chart.
WaterfallFigure(sorted_shap) ==
    [ type |-> "Waterfall",
      y |-> [k \in DOMAIN sorted_shap |-> sorted_shap[k][1]],
      x |-> [k \in DOMAIN sorted_shap |-> sorted_shap[k][2]] ]

BarFigure(sorted_shap) ==
    [ type |-> "Bar",
      y |-> [k \in DOMAIN sorted_shap |-> sorted_shap[k][1]],
      x |-> [k \in DOMAIN sorted_shap |-> Abs(sorted_shap[k][2])],
      marker_color |-> [k \in DOMAIN sorted_shap |->
                          IF sorted_shap[k][2] > 0 THEN "#2E7D32" ELSE "#C62828"] ]

\* explainer.shap_values and the two charts: the body of the inner try block.
ShapBody(lib) ==
    IF lib.shap = None THEN [figs |-> Raised, explain |-> 1]
    ELSE LET sorted_shap == SortedShap(lib.shap)
         IN  [ figs |-> <<WaterfallFigure(sorted_shap), BarFigure(sorted_shap)>>,
               explain |-> 1 ]

\* Mutant: no inner except branch, the failure leaves the inner try block.
CatchShapMissing(e) == e

\* The inner except branch: result_text is returned with no chart.
CatchShap(e) == IF e.figs = Raised THEN [e EXCEPT !.figs = <<None, None>>] ELSE e

\* The explanation step: skipped when there is no explainer.
Explanation(lib) ==
    IF explainer = None THEN [figs |-> <<None, None>>, explain |-> 0]
    ELSE CatchShap(ShapBody(lib))

\* The outer try block of predict_biogas.  lib is what the libraries do
\* during the call: lib.predict is "raise" when model.predict fails, lib.shap
\* is what explainer.shap_values returns (None when it raises).
PredictBody(inputs, lib) ==
    IF feature_names = None \/ ~(Range(feature_names.items) \subseteq DOMAIN inputs)
    THEN [result |-> Raised, calls |-> NoCalls]
    ELSE IF lib.predict = "raise"
    THEN [result |-> Raised, calls |-> [NoCalls EXCEPT !.predict = 1]]
    ELSE LET prediction == Frac(ModelPredict(SelectFeatures(inputs)), 1)
             expl == Explanation(lib)
             made == [NoCalls EXCEPT !.predict = 1, !.explain = expl.explain]
         IN  IF expl.figs = Raised
             THEN [result |-> Raised, calls |-> made]
             ELSE [ result |-> <<ResultText(prediction), expl.figs[1], expl.figs[2]>>,
                    calls |-> made ]

\* The outer except branch of predict_biogas.
CatchPredict(run) ==
    IF run.result = Raised
    THEN [run EXCEPT !.result = <<ErrorText("Prediction error"), None, None>>]
    ELSE run

\* Mutant: the guard looks at the explainer instead of the model.
RegistryUnavailableByExplainer == explainer = None

\* if model is None
RegistryUnavailable == model = None

\* predict_biogas(inputs): what it returns and the library calls it makes.
PredictBiogasRun(inputs, lib) ==
    IF RegistryUnavailable
    THEN [ result |-> <<ErrorText("Model not loaded. Please check setup."), None, None>>,
           calls |-> NoCalls ]
    ELSE CatchPredict(PredictBody(inputs, lib))

(* ---------------------------- batch_predict ---------------------------- *)

\* A table (DataFrame) is its set of column names and its rows in order, each
\* row a mapping from the column names to values.

\* Mutant: the difference taken the other way round.
MissingColumnsReversed(df) == df.columns \ Range(feature_names.items)

\* set(feature_names) - set(df.columns)
MissingColumns(df) == Range(feature_names.items) \ df.columns

\* The i-th pass of the loop over df.iterrows().
RowPrediction(df, i) == ModelPredict(SelectFeatures(df.rows[i]))

\* predictions, once the loop has run over every row.
Predictions(df) == [i \in DOMAIN df.rows |-> RowPrediction(df, i)]

\* df['Predicted_Biogas_m3'] = predictions: the column is set in every row,
\* replacing a column of that name when the table has one.
WithPredictions(df, predictions) ==
    [ columns |-> df.columns \cup {PredictionColumn},
      rows |-> [i \in DOMAIN df.rows |->
                  [c \in df.columns \cup {PredictionColumn} |->
                     IF c = PredictionColumn THEN predictions[i] ELSE df.rows[i][c]]] ]

RECURSIVE SeqSum(_)
SeqSum(s) == IF s = <<>> THEN 0 ELSE s[Len(s)] + SeqSum(SubSeq(s, 1, Len(s) - 1))

SeqMin(s) == CHOOSE v \in Range(s) : \A w \in Range(s) : v <= w
SeqMax(s) == CHOOSE v \in Range(s) : \A w \in Range(s) : v >= w

\* The summary text: the count and the numpy statistics of predictions.  The
\* standard deviation is the square root of the field variance.
Summary(df, predictions) ==
    LET n == Len(predictions)
        total == SeqSum(predictions)
        squares == SeqSum([i \in DOMAIN predictions |-> predictions[i] * predictions[i]])
    IN  [ prefix |-> "",
          msg |-> "BATCH PREDICTION RESULTS",
          total_scenarios |-> Len(df.rows),
          mean |-> Frac(total, n),
          variance |-> Frac(n * squares - total * total, n * n),
          min |-> SeqMin(predictions),
          max |-> SeqMax(predictions),
          range |-> SeqMax(predictions) - SeqMin(predictions) ]

\* The try block of batch_predict, and the table it writes to output_file
\* (None when it writes nothing).  lib is what the libraries do during the
\* call: lib.read and lib.write are "raise" when pd.read_csv and df.to_csv
\* fail, and lib.predict_fails_at is the call of model.predict that raises
\* (0 when none does).
BatchBody(file, lib) ==
    LET raised(made) == [result |-> Raised, calls |-> made, written |-> None]
        afterRead == [NoCalls EXCEPT !.read = 1]
    IN
    IF lib.read = "raise" THEN raised(afterRead)
    \* set(None) is a TypeError
    ELSE IF feature_names = None THEN raised(afterRead)
    ELSE LET df == file.table
             n == Len(df.rows)
         IN
         IF MissingColumns(df) # {}
         THEN [ result |-> << [ prefix |-> FAIL_PREFIX, msg |-> "Missing columns",
                                names |-> MissingColumns(df) ], None >>,
                calls |-> afterRead, written |-> None ]
         \* row[feature_names] with a label the row lacks is a KeyError
         ELSE IF n > 0 /\ ~(Range(feature_names.items) \subseteq df.columns)
         THEN raised(afterRead)
         ELSE IF lib.predict_fails_at \in 1..n
         THEN raised([afterRead EXCEPT !.predict = lib.predict_fails_at])
         ELSE LET predictions == Predictions(df)
                  scored == WithPredictions(df, predictions)
                  afterLoop == [afterRead EXCEPT !.predict = n]
              IN
              \* np.min of an empty list is a ValueError
              IF n = 0 THEN raised(afterLoop)
              ELSE IF lib.write = "raise"
              THEN raised([afterLoop EXCEPT !.write = 1])
              ELSE [ result |-> <<Summary(scored, predictions), output_file>>,
                     calls |-> [afterLoop EXCEPT !.write = 1],
                     written |-> scored ]

\* Mutant: no except branch, the failure leaves batch_predict.
CatchBatchMissing(run) == run

\* The except branch of batch_predict.
CatchBatch(run) ==
    IF run.result = Raised
    THEN [run EXCEPT !.result = <<ErrorText("Error processing file"), None>>]
    ELSE run

\* batch_predict(file): what it returns, the library calls it makes and the
\* table it writes.
BatchPredictRun(file, lib) ==
    IF RegistryUnavailable
    THEN [ result |-> <<ErrorText("Model not loaded"), None>>,
           calls |-> NoCalls, written |-> None ]
    ELSE IF file = None
    THEN [ result |-> <<ErrorText("Please upload a CSV file"), None>>,
           calls |-> NoCalls, written |-> None ]
    ELSE CatchBatch(BatchBody(file, lib))

(* ------------------------------ requests ------------------------------- *)

\* Values of a slider and of a table cell.
Vals == {0, 1}

\* Contributions explainer.shap_values reports.
ShapVals == {-1, 0, 1}

\* The sliders the feature list selects and one it does not; no other slider
\* is ever read.
SliderInputs ==
    [ { SliderKeys[k] : k \in 1..Min(Len(featureFile) + 1, Len(SliderKeys)) } -> Vals ]

\* Rows of contributions, one value per feature: the first ShapFree take
\* every value, the ones behind them are -1 and 1 in turn.
ShapRows ==
    LET n == Len(featureFile)
        free == Min(ShapFree, n)
    IN  { [k \in 1..n |-> IF k <= free THEN v[k]
                          ELSE IF k % 2 = 0 THEN -1 ELSE 1] :
          v \in [1..free -> ShapVals] }

\* What shap_values returns for one row: the row itself or a one-row matrix.
ShapArrays ==
    { [ndim |-> 1, data |-> v] : v \in ShapRows }
    \cup { [ndim |-> 2, data |-> <<v>>] : v \in ShapRows }

\* The first call that fails ends the try block: what the calls behind it
\* would have done is left open only where they are reached.
PredictLibs ==
    { l \in [predict : {"ok", "raise"}, shap : {None} \cup ShapArrays] :
        l.predict = "raise" => l.shap = None }

\* Uploaded tables: any of the feature columns, and at most one other column,
\* which may bear the name of the column batch_predict adds.
ColumnSets ==
    { fs \cup ex : fs \in SUBSET Range(featureFile),
                   ex \in {{}, {"Scenario"}, {PredictionColumn}} }

Tables ==
    UNION { { [columns |-> c, rows |-> r] :
                r \in UNION { [1..n -> [c -> Vals]] : n \in 0..MaxRows } } :
            c \in ColumnSets }

Uploads == {None} \cup { [name |-> "upload.csv", table |-> t] : t \in Tables }

BatchLibs ==
    { l \in [read : {"ok", "raise"}, predict_fails_at : 0..MaxRows,
             write : {"ok", "raise"}] :
        /\ l.read = "raise" => l.predict_fails_at = 0
        /\ l.read = "raise" \/ l.predict_fails_at > 0 => l.write = "ok" }

Threads == 1..NumThreads

\* One click of the predict button: the whole of predict_biogas.
PredictBiogasCall(inputs, lib) ==
    /\ req' = [op |-> "predict_biogas", inputs |-> inputs, lib |-> lib]
    /\ LET run == PredictBiogasRun(inputs, lib)
       IN  result' = run.result /\ calls' = run.calls
    /\ served' = TRUE
    /\ UNCHANGED <<envVars, pc, regVars, defaults, outfile, concVars>>

PredictBiogas ==
    /\ Callable
    /\ ~served
    /\ \E inputs \in SliderInputs, lib \in PredictLibs : PredictBiogasCall(inputs, lib)
    /\ UNCHANGED first

\* Mutant: batch_predict rebinds the module-level feature list, reversed.
BatchPredictCallRebinding(file, lib) ==
    /\ req' = [op |-> "batch_predict", file |-> file, lib |-> lib]
    /\ LET run == BatchPredictRun(file, lib)
       IN  /\ result' = run.result
           /\ calls' = run.calls
           /\ outfile' = IF run.written = None THEN outfile ELSE run.written
    /\ served' = TRUE
    /\ feature_names' =
          IF feature_names = None THEN None
          ELSE [feature_names EXCEPT !.items =
                  [k \in DOMAIN @ |-> @[Len(@) + 1 - k]]]
    /\ UNCHANGED <<envVars, pc, model, feature_stats, performance_metrics,
                   explainer, defaults, concVars>>

\* One click of the batch button: the whole of batch_predict.
BatchPredictCall(file, lib) ==
    /\ req' = [op |-> "batch_predict", file |-> file, lib |-> lib]
    /\ LET run == BatchPredictRun(file, lib)
       IN  /\ result' = run.result
           /\ calls' = run.calls
           /\ outfile' = IF run.written = None THEN outfile ELSE run.written
    /\ served' = TRUE
    /\ UNCHANGED <<envVars, pc, regVars, defaults, concVars>>

BatchPredict ==
    /\ Callable
    /\ ~served
    /\ \E file \in Uploads, lib \in BatchLibs : BatchPredictCall(file, lib)
    /\ UNCHANGED first

(* --------------------------- specifications ---------------------------- *)

\* Before the first statement: nothing is loaded, nothing has been asked.
Blank ==
    /\ pc = "load"
    /\ model = None /\ feature_names = None /\ feature_stats = None
    /\ performance_metrics = None /\ explainer = None
    /\ defaults = None
    /\ served = FALSE /\ req = None /\ result = None /\ calls = NoCalls
    /\ first = None
    /\ outfile = None
    /\ tpc = [t \in Threads |-> "idle"]
    /\ tfile = [t \in Threads |-> None]
    /\ tout = [t \in Threads |-> None]
    /\ tret = [t \in Threads |-> None]
    /\ delivered = [t \in Threads |-> None]

\* The load reads artifacts only through two facts: whether all four registry
\* pickles deserialize and whether the explainer pickle does.  These states
\* of the artifact directory cover the four combinations, and a partial load.
ArtifactCases ==
    { ArtifactNames,
      ArtifactNames \ {"shap_explainer.pkl"},
      ArtifactNames \ {"feature_stats.pkl"},
      {"shap_explainer.pkl"},
      {} }

\* Spec: the start-up, then one request of either kind with every input and
\* every behaviour of the libraries.
Init ==
    /\ artifacts \in ArtifactCases
    /\ featureFile = SubSeq(SliderKeys, 1, NumFeatures)
    /\ treeModel = TRUE
    /\ Blank

Next == LoadRegistry \/ LoadExplainer \/ BuildInterface \/ PredictBiogas \/ BatchPredict

Spec == Init /\ [][Next]_vars

\* SpecStartup: the module-level code alone, under every state of the five
\* pickles and of the explainer construction.
InitStartup ==
    /\ artifacts \in SUBSET ArtifactNames
    /\ featureFile = SubSeq(SliderKeys, 1, NumFeatures)
    /\ treeModel \in BOOLEAN
    /\ Blank

NextStartup == LoadRegistry \/ LoadExplainer \/ BuildInterface

SpecStartup == InitStartup /\ [][NextStartup]_vars

\* SpecShap: a full registry with a feature list longer than the ranking,
\* then one prediction whose explanation takes every value.
PredictShap ==
    /\ pc = "serving"
    /\ ~served
    /\ \E v \in ShapRows :
          PredictBiogasCall([k \in Range(featureFile) |-> 0],
                            [predict |-> "ok", shap |-> [ndim |-> 2, data |-> <<v>>]])
    /\ UNCHANGED first

InitShap ==
    /\ artifacts = ArtifactNames
    /\ featureFile = SubSeq(SliderKeys, 1, NumShapFeatures)
    /\ treeModel = TRUE
    /\ Blank

NextShap == LoadRegistry \/ LoadExplainer \/ BuildInterface \/ PredictShap

SpecShap == InitShap /\ [][NextShap]_vars

(* -------------------------- request sequences --------------------------- *)

\* Slider values of the sequences: one value for every selected feature.
SeqInputs == [Range(featureFile) -> Vals]

\* A row of contributions with the same value for every feature.
ConstantRow(v) == [k \in 1..Len(featureFile) |-> v]

\* What the libraries do during a prediction of a sequence: model.predict
\* raises, shap_values raises, or it returns a row or a one-row matrix.
SeqLibs ==
    { [predict |-> "raise", shap |-> None],
      [predict |-> "ok", shap |-> None],
      [predict |-> "ok", shap |-> [ndim |-> 1, data |-> ConstantRow(1)]],
      [predict |-> "ok", shap |-> [ndim |-> 2, data |-> <<ConstantRow(-1)>>]] }

\* Uploads of a sequence: none, a table without columns, and tables of one
\* row that hold every feature column, with the same value in each.
SeqUploads ==
    {None}
    \cup { [name |-> "upload.csv", table |-> [columns |-> {}, rows |-> <<>>]] }
    \cup { [name |-> "upload.csv",
            table |-> [columns |-> Range(featureFile),
                       rows |-> << [c \in Range(featureFile) |-> v] >>]] :
            v \in Vals }

\* What the libraries do during a batch request of a sequence: every call
\* of model.predict succeeds.
SeqBatchLibs == { l \in BatchLibs : l.predict_fails_at = 0 }

\* A further click of the predict button.  model.predict and
\* explainer.shap_values are functions of their arguments: for the inputs of
\* the first prediction they do what they did then.
SeqPredict ==
    /\ pc = "serving"
    /\ \E inputs \in SeqInputs, lib \in SeqLibs :
          /\ first # None /\ inputs = first.inputs => lib = first.lib
          /\ PredictBiogasCall(inputs, lib)
          /\ first' = IF first = None
                      THEN [ inputs |-> inputs, lib |-> lib,
                             result |-> PredictBiogasRun(inputs, lib).result,
                             fresh |-> outfile = None ]
                      ELSE first

\* A further click of the batch button.
SeqBatch ==
    /\ pc = "serving"
    /\ \E file \in SeqUploads, lib \in SeqBatchLibs : BatchPredictCall(file, lib)
    /\ UNCHANGED first

\* SpecSeq: the start-up, then requests of both kinds through the interface
\* in any number and order, succeeding and failing.
NextSeq == LoadRegistry \/ LoadExplainer \/ BuildInterface \/ SeqPredict \/ SeqBatch

SpecSeq == Init /\ [][NextSeq]_vars

(* ------------------------ concurrent batch requests --------------------- *)

\* Uploads of the concurrent requests: complete one-row tables.
CompleteUploads ==
    { [name |-> "upload.csv", table |-> t] :
        t \in { u \in Tables : u.columns = Range(featureFile) /\ Len(u.rows) = 1 } }

NoFault == [read |-> "ok", predict_fails_at |-> 0, write |-> "ok"]

\* A worker thread enters batch_predict and runs it up to the summary text:
\* everything it touches so far is local to the call.
BatchStart(t) ==
    /\ pc = "serving"
    /\ tpc[t] = "idle"
    /\ \E file \in CompleteUploads :
          /\ tfile' = [tfile EXCEPT ![t] = file]
          /\ tout' = [tout EXCEPT ![t] = BatchPredictRun(file, NoFault)]
    /\ tpc' = [tpc EXCEPT ![t] = "write"]
    /\ UNCHANGED <<envVars, pc, regVars, defaults, reqVars, outfile, tret, delivered>>

\* df.to_csv(output_file): the one path every call writes.  The write is
\* taken as a whole; two writes never mix their rows.
BatchWrite(t) ==
    /\ tpc[t] = "write"
    /\ outfile' = tout[t].written
    /\ tpc' = [tpc EXCEPT ![t] = "return"]
    /\ UNCHANGED <<envVars, pc, regVars, defaults, reqVars, tfile, tout, tret, delivered>>

\* return summary, output_file
BatchReturn(t) ==
    /\ tpc[t] = "return"
    /\ tret' = [tret EXCEPT ![t] = tout[t].result]
    /\ tpc' = [tpc EXCEPT ![t] = "returned"]
    /\ UNCHANGED <<envVars, pc, regVars, defaults, reqVars, outfile, tfile, tout, delivered>>

\* The File output of the batch button: the returned path is read and its
\* content handed to the client of this request.
Deliver(t) ==
    /\ tpc[t] = "returned"
    /\ delivered' = [delivered EXCEPT ![t] = outfile]
    /\ tpc' = [tpc EXCEPT ![t] = "done"]
    /\ UNCHANGED <<envVars, pc, regVars, defaults, reqVars, outfile, tfile, tout, tret>>

\* SpecConc: a full registry, then NumThreads batch requests interleaved at
\* every access to the file system.
InitConc ==
    /\ artifacts = ArtifactNames
    /\ featureFile = SubSeq(SliderKeys, 1, NumFeatures)
    /\ treeModel = TRUE
    /\ Blank

NextConc ==
    \/ LoadRegistry \/ LoadExplainer \/ BuildInterface
    \/ \E t \in Threads : BatchStart(t)
    \/ \E t \in Threads : BatchWrite(t)
    \/ \E t \in Threads : BatchReturn(t)
    \/ \E t \in Threads : Deliver(t)

SpecConc == InitConc /\ [][NextConc]_vars

(* ------------------------------- claims -------------------------------- *)

DonePredict == served /\ req.op = "predict_biogas"
DoneBatch == served /\ req.op = "batch_predict"

\* The vector of a mapping's values in the order of the loaded feature list.
InFeatureOrder(mapping) ==
    [k \in DOMAIN feature_names.items |-> mapping[feature_names.items[k]]]

\* A batch request that got past the guards and read a table holding every
\* required column.
CompleteBatch ==
    /\ DoneBatch
    /\ model # None
    /\ req.file # None
    /\ req.lib.read = "ok"
    /\ Range(feature_names.items) \subseteq req.file.table.columns

\* C1: with the registry Unavailable (model is None) either handler returns
\* an error message and nothing else, and has called neither the predictor
\* nor the explainer nor read or written a file.
C1_UnavailableShortCircuits ==
    served /\ model = None =>
        /\ result[1].prefix = FAIL_PREFIX
        /\ \A k \in 2..Len(result) : result[k] = None
        /\ calls = NoCalls
        /\ outfile = None

\* C1 witness: a batch request with an uploaded table, answered while the
\* model is None.
C1_Witness ==
    /\ DoneBatch /\ model = None
    /\ req.file # None /\ Len(req.file.table.rows) > 0
    /\ result[1].prefix = FAIL_PREFIX

\* C2: when the predictor succeeds and the explanation fails or there is no
\* explainer, predict_biogas returns the success text with the prediction and
\* the derived metrics, and None for both charts.
C2_ExplanationFailureKeepsResult ==
    ( /\ DonePredict /\ model # None
      /\ req.lib.predict = "ok"
      /\ (explainer = None \/ req.lib.shap = None) ) =>
        /\ result[1].prefix # FAIL_PREFIX
        /\ result[1].msg = "PREDICTION RESULTS"
        /\ { "prediction", "daily_energy", "annual_production",
             "vs_average", "vs_average_pct" } \subseteq DOMAIN result[1]
        /\ result[1].prediction = Frac(ModelPredict(InFeatureOrder(req.inputs)), 1)
        /\ result[2] = None
        /\ result[3] = None

\* C2 witness: the explainer was called, raised, and the text is a success.
C2_Witness ==
    /\ DonePredict /\ model # None /\ explainer # None
    /\ req.lib.predict = "ok" /\ req.lib.shap = None
    /\ calls.explain = 1
    /\ result[1].prefix = ""

\* C3: a table lacking required columns is rejected with an error naming
\* exactly the feature names the table lacks; no prediction is made and no
\* output file is written.
C3_MissingColumnsNamedExactly ==
    ( /\ DoneBatch /\ model # None /\ req.file # None /\ req.lib.read = "ok"
      /\ ~(Range(feature_names.items) \subseteq req.file.table.columns) ) =>
        /\ result[1].prefix = FAIL_PREFIX
        /\ result[1].msg = "Missing columns"
        /\ \A c \in Range(SliderKeys) \cup req.file.table.columns \cup result[1].names :
              c \in result[1].names <=>
                  (c \in Range(feature_names.items) /\ c \notin req.file.table.columns)
        /\ result[2] = None
        /\ calls.predict = 0
        /\ calls.write = 0
        /\ outfile = None

\* C3 witness: a table with rows and a column of its own that lacks exactly
\* one of the required columns.
C3_Witness ==
    /\ DoneBatch /\ model # None /\ req.file # None /\ req.lib.read = "ok"
    /\ "Scenario" \in req.file.table.columns
    /\ Len(req.file.table.rows) > 0
    /\ Cardinality(Range(feature_names.items) \ req.file.table.columns) = 1
    /\ Cardinality(Range(feature_names.items) \cap req.file.table.columns) >= 1
    /\ result[1].prefix = FAIL_PREFIX

\* C4: for a table of N rows with every required column (and no library
\* failure) batch_predict succeeds; the table it writes is the input table
\* with the prediction column added, the i-th prediction being the
\* predictor's output for the i-th row's features in feature_names order.
C4_EveryRowPredictedInOrder ==
    CompleteBatch /\ req.lib = NoFault =>
        /\ result[1].prefix # FAIL_PREFIX
        /\ result[2] = output_file
        /\ outfile # None
        /\ outfile.columns = req.file.table.columns \cup {PredictionColumn}
        /\ Len(outfile.rows) = Len(req.file.table.rows)
        /\ \A i \in DOMAIN req.file.table.rows :
              /\ outfile.rows[i][PredictionColumn]
                     = ModelPredict(InFeatureOrder(req.file.table.rows[i]))
              /\ \A c \in req.file.table.columns :
                     outfile.rows[i][c] = req.file.table.rows[i][c]

\* C5: a table with every required column and no rows is answered with a
\* success, not with an error.
C5_EmptyTableSucceeds ==
    ( /\ CompleteBatch
      /\ req.lib = NoFault
      /\ Len(req.file.table.rows) = 0 ) =>
        /\ result[1].prefix # FAIL_PREFIX
        /\ result[2] # None

\* C6: the ranking of the charts has min(10, number of features) entries,
\* each a feature with its own contribution, in non-increasing absolute
\* value; no feature left out outweighs one kept; features of equal absolute
\* value stand in feature_names order, the kept ones ahead of the left-out
\* ones; and the bar chart ranks the same features in the same order.
C6_RankingTopTenStable ==
    DonePredict /\ result[2] # None =>
        LET names == feature_names.items
            row == IF req.lib.shap.ndim = 1 THEN req.lib.shap.data
                                           ELSE req.lib.shap.data[1]
            fig == result[2]
            fig2 == result[3]
            m == Len(fig.y)
            pos(name) == CHOOSE i \in DOMAIN names : names[i] = name
        IN  /\ m = (IF Len(names) < 10 THEN Len(names) ELSE 10)
            /\ Len(fig.x) = m
            /\ \A k \in 1..m : fig.y[k] \in Range(names) /\ fig.x[k] = row[pos(fig.y[k])]
            /\ \A k, l \in 1..m : k # l => fig.y[k] # fig.y[l]
            /\ \A k \in 1..(m - 1) : Abs(fig.x[k]) >= Abs(fig.x[k + 1])
            /\ \A i \in DOMAIN names : names[i] \notin Range(fig.y) =>
                  \A k \in 1..m : /\ Abs(row[i]) <= Abs(fig.x[k])
                                  /\ Abs(row[i]) = Abs(fig.x[k]) => pos(fig.y[k]) < i
            /\ \A k, l \in 1..m :
                  k < l /\ Abs(fig.x[k]) = Abs(fig.x[l]) => pos(fig.y[k]) < pos(fig.y[l])
            /\ fig2.y = fig.y
            /\ Len(fig2.x) = m
            /\ \A k \in 1..m : fig2.x[k] = Abs(fig.x[k])

\* C6 witness: more features than the ranking holds, and two neighbours of
\* the ranking with equal absolute value and opposite sign.
C6_Witness ==
    /\ DonePredict /\ result[2] # None
    /\ Len(feature_names.items) > Len(result[2].y)
    /\ \E k \in 1..(Len(result[2].x) - 1) :
          result[2].x[k] = -1 /\ result[2].x[k + 1] = 1
    /\ \E k \in DOMAIN result[2].x : result[2].x[k] = 0

\* C7: for every point estimate p the text carries energy = p * 6.5,
\* annual = p * 365 / 1000, delta = p - 79.21 and pct = delta / 79.21 * 100.
C7_DerivedMetricsExact ==
    DonePredict /\ result[1].prefix # FAIL_PREFIX =>
        LET t == result[1]
            p == t.prediction
        IN  /\ p = Frac(ModelPredict(InFeatureOrder(req.inputs)), 1)
            /\ t.daily_energy = Frac(65 * p.n, 10 * p.d)
            /\ t.annual_production = Frac(365 * p.n, 1000 * p.d)
            /\ t.vs_average = Frac(100 * p.n - 7921 * p.d, 100 * p.d)
            /\ t.vs_average_pct = Frac(100 * 100 * t.vs_average.n, 7921 * t.vs_average.d)

\* C7 witness: a successful prediction with a negative point estimate.
C7_Witness ==
    /\ DonePredict /\ result[1].prefix = ""
    /\ result[1].prediction.n < 0
    /\ result[1].daily_energy.n < 0

\* C8: a handler always returns; whenever a library call it made failed, and
\* whenever it reports an error, the message opens with the failure prefix
\* and every other output is None; an answer carrying a prediction or an
\* output file never opens with the prefix.
C8_NoRawFault ==
    served =>
        /\ result # Raised
        /\ result[1].prefix \in {"", FAIL_PREFIX}
        /\ ( \/ DonePredict /\ req.lib.predict = "raise" /\ calls.predict = 1
             \/ DoneBatch /\ req.file # None /\ req.lib.read = "raise" /\ calls.read = 1
             \/ DoneBatch /\ req.file # None /\ req.lib.predict_fails_at > 0
                          /\ calls.predict = req.lib.predict_fails_at
             \/ DoneBatch /\ req.file # None /\ req.lib.write = "raise" /\ calls.write = 1 )
           => result[1].prefix = FAIL_PREFIX
        /\ result[1].prefix = FAIL_PREFIX => \A k \in 2..Len(result) : result[k] = None
        /\ ( \/ DoneBatch /\ result[2] # None
             \/ DonePredict /\ "prediction" \in DOMAIN result[1] )
           => result[1].prefix = ""

\* C8 witness: df.to_csv was called and failed, and the answer is an error.
C8_Witness ==
    /\ DoneBatch /\ req.file # None
    /\ req.lib.write = "raise" /\ calls.write = 1
    /\ result[1].prefix = FAIL_PREFIX
    /\ result[2] = None

\* C9: a start-up whose artifact loading fails, leaving the registry
\* Unavailable, completes without raising.
C9_UnavailableStartupCompletes == model = None => pc # "crashed"

\* C10: the results file a batch request's client receives holds that
\* request's own table and predictions.
C10_OwnResultsDelivered ==
    \A t \in Threads : tpc[t] = "done" => delivered[t] = tout[t].written

\* C11: once the start-up has bound them, no request of either kind changes
\* model, feature_names, feature_stats, performance_metrics or explainer; and
\* a predict_biogas call with the inputs of the first one returns what the
\* first one returned, whatever requests ran in between.
C11_HistoryIndependent ==
    /\ [][Callable => UNCHANGED regVars]_vars
    /\ [](DonePredict /\ first # None /\ req.inputs = first.inputs
            => result = first.result)

\* C11 witness: a successful prediction repeating the inputs of the first
\* one, after a batch request in between has written a results file.
C11_Witness ==
    /\ DonePredict /\ first # None
    /\ req.inputs = first.inputs
    /\ first.fresh /\ outfile # None
    /\ result[1].prefix = "" /\ result[2] # None

\* C12: once the first try block has run, model, feature_names,
\* feature_stats and performance_metrics are all loaded when the four
\* registry pickles deserialize and all None when any of them fails, so a
\* loaded model comes with a loaded feature list; and once the second try
\* block has run, the explainer is None whenever the model is None and the
\* explainer pickle did not deserialize.
C12_RegistryAllOrNothing ==
    /\ pc # "load" =>
          /\ \/ /\ Range(RegistryFiles) \subseteq artifacts
                /\ \A i \in DOMAIN RegistryFiles :
                      regVars[i] = Unpickle(RegistryFiles[i])
                /\ \A i \in DOMAIN RegistryFiles : regVars[i] # None
             \/ /\ ~(Range(RegistryFiles) \subseteq artifacts)
                /\ \A i \in DOMAIN RegistryFiles : regVars[i] = None
          /\ model # None => feature_names # None
    /\ ( /\ pc \notin {"load", "explainer"}
         /\ model = None
         /\ "shap_explainer.pkl" \notin artifacts ) => explainer = None

\* C12 witness: the model pickle deserializes, another registry pickle does
\* not, and after both try blocks nothing of the registry is loaded.
C12_Witness ==
    /\ pc = "interface"
    /\ "lightgbm_model.pkl" \in artifacts
    /\ "feature_names.pkl" \in artifacts
    /\ "feature_stats.pkl" \notin artifacts
    /\ "shap_explainer.pkl" \notin artifacts
    /\ model = None /\ feature_names = None /\ explainer = None

====
